---- MODULE Spec2Model ----
(***************************************************************************)
(* Model of aimakerspace/text_utils.py: CharacterTextSplitter and the      *)
(* three document loaders (TextFileLoader, PDFFileLoader,                  *)
(* UniversalDocumentLoader).                                               *)
(*                                                                         *)
(* Strings are sequences of one-character strings, so that slicing,        *)
(* lower() and endswith() are computed character by character.             *)
(***************************************************************************)
EXTENDS Integers, Sequences, FiniteSets, TLC

VARIABLES
    \* ---- CharacterTextSplitter ----
    spc,            \* position of the splitter's caller: new / failed / ready / loop / returned / raised
    arg_size,       \* chunk_size argument of the last constructor call
    arg_overlap,    \* chunk_overlap argument of the last constructor call
    chunk_size,     \* self.chunk_size
    chunk_overlap,  \* self.chunk_overlap
    text,           \* argument of split
    i,              \* loop variable of split
    chunks,         \* local list of split
    starts,         \* the values i took in the loop body, in order
    result,         \* value returned by split
    serr,           \* exception raised to the splitter's caller ("" when none)
    \* ---- the environment of the loaders ----
    fs,             \* the directory tree: [root, hasSub, sub], listings in os.walk order
    PDF_AVAILABLE,  \* whether "import PyPDF2" succeeded
    \* ---- one loader instance and its caller ----
    lcls,           \* class of the loader: none / TextFileLoader / PDFFileLoader / UniversalDocumentLoader
    lpath,          \* self.path
    documents,      \* self.documents
    lpc,            \* position of the loader's caller: none / failed / ready / returned / raised
    lerr,           \* exception raised to the loader's caller ("" when none)
    lop,            \* the last method called: "" / load / load_documents
    ret,            \* the list load_documents returned
    warnings,       \* paths named in the warnings printed by the last call
    calls,          \* calls of load / load_documents made on the instance
    successes       \* those of them that returned

svars == <<spc, arg_size, arg_overlap, chunk_size, chunk_overlap, text, i, chunks, starts, result, serr>>

lvars == <<fs, PDF_AVAILABLE, lcls, lpath, documents, lpc, lerr, lop, ret, warnings, calls, successes>>

vars == <<svars, lvars>>

----------------------------------------------------------------------------
(* Bounds of the model *)

\* longest text handed to split (besides the 23-character example)
MaxLen == 4
\* largest chunk_size / chunk_overlap argument (besides the example and the defaults)
MaxSize == 4
\* the arguments range down to -NegRange: the constructor takes any int
NegRange == 2

\* defaults of CharacterTextSplitter.__init__
DefaultChunkSize == 1000
DefaultChunkOverlap == 200

Alphabet == {"a", "b"}

Min(a, b) == IF a < b THEN a ELSE b
Max(a, b) == IF a > b THEN a ELSE b

Texts == UNION {[1..n -> Alphabet] : n \in 0..MaxLen}

\* a text of 23 pairwise different characters
ExampleText ==
    <<"a","b","c","d","e","f","g","h","i","j","k","l","m","n","o","p","q","r","s","t","u","v","w">>

SplitInputs == Texts \cup {ExampleText}

Sizes == (0 - NegRange)..MaxSize

ConstructorArgs ==
    (Sizes \X Sizes) \cup {<<10, 5>>, <<DefaultChunkSize, DefaultChunkOverlap>>}

----------------------------------------------------------------------------
(* Python primitives *)

\* a faulty variant of PySlice: the slice ends one character early
PySlice_short(s, a, b) ==
    LET n  == Len(s)
        lo == IF a < 0 THEN Max(a + n, 0) ELSE Min(a, n)
        hi == IF b < 0 THEN Max(b + n, 0) ELSE Min(b, n)
    IN  IF hi - 1 <= lo THEN <<>> ELSE SubSeq(s, lo + 1, hi - 1)

\* s[a:b] for a sequence s: negative indices count from the end, both ends are clipped
PySlice(s, a, b) ==
    LET n  == Len(s)
        lo == IF a < 0 THEN Max(a + n, 0) ELSE Min(a, n)
        hi == IF b < 0 THEN Max(b + n, 0) ELSE Min(b, n)
    IN  IF hi <= lo THEN <<>> ELSE SubSeq(s, lo + 1, hi)

\* a faulty variant of InRange: the stop value is yielded too
InRange_inclusive(v, stop, step) ==
    IF step > 0 THEN v <= stop ELSE v >= stop

\* whether range(start, stop, step) still yields the value v (step # 0)
InRange(v, stop, step) ==
    IF step > 0 THEN v < stop ELSE v > stop

----------------------------------------------------------------------------
(* CharacterTextSplitter *)

\* a faulty variant of Accepts: equal size and overlap pass
Accepts_equal(size, overlap) == size >= overlap

\* the assert of __init__
Accepts(size, overlap) == size > overlap

\* a faulty variant of Stride: the overlap is not subtracted
Stride_no_overlap == chunk_size

\* the step of the range in split
Stride == chunk_size - chunk_overlap

\* CharacterTextSplitter(chunk_size, chunk_overlap)
Construct(size, overlap) ==
    /\ spc = "new"
    /\ arg_size' = size
    /\ arg_overlap' = overlap
    /\ IF Accepts(size, overlap)
         THEN /\ chunk_size' = size
              /\ chunk_overlap' = overlap
              /\ spc' = "ready"
              /\ serr' = ""
         ELSE /\ spc' = "failed"
              /\ serr' = "AssertionError"
              /\ UNCHANGED <<chunk_size, chunk_overlap>>
    /\ UNCHANGED <<text, i, chunks, starts, result>>
    /\ UNCHANGED lvars

\* split(text): chunks = [] and the first evaluation of range(0, len(text), step);
\* range raises ValueError for a step of zero
SplitCall(t) ==
    /\ spc \in {"ready", "returned"}
    /\ text' = t
    /\ chunks' = <<>>
    /\ starts' = <<>>
    /\ result' = <<>>
    /\ i' = 0
    /\ IF Stride = 0
         THEN spc' = "raised" /\ serr' = "ValueError"
         ELSE spc' = "loop" /\ serr' = ""
    /\ UNCHANGED <<arg_size, arg_overlap, chunk_size, chunk_overlap>>
    /\ UNCHANGED lvars

\* one pass through the loop body: chunks.append(text[i : i + self.chunk_size])
SplitIterate ==
    /\ spc = "loop"
    /\ InRange(i, Len(text), Stride)
    /\ chunks' = Append(chunks, PySlice(text, i, i + chunk_size))
    /\ starts' = Append(starts, i)
    /\ i' = i + Stride
    /\ UNCHANGED <<spc, arg_size, arg_overlap, chunk_size, chunk_overlap, text, result, serr>>
    /\ UNCHANGED lvars

\* the range is exhausted: return chunks
SplitReturn ==
    /\ spc = "loop"
    /\ ~InRange(i, Len(text), Stride)
    /\ result' = chunks
    /\ spc' = "returned"
    /\ UNCHANGED <<arg_size, arg_overlap, chunk_size, chunk_overlap, text, i, chunks, starts, serr>>
    /\ UNCHANGED lvars

\* no splitter has been constructed
NoSplitter ==
    /\ spc = "new"
    /\ arg_size = 0
    /\ arg_overlap = 0
    /\ chunk_size = 0
    /\ chunk_overlap = 0
    /\ text = <<>>
    /\ i = 0
    /\ chunks = <<>>
    /\ starts = <<>>
    /\ result = <<>>
    /\ serr = ""

\* no loader has been constructed
NoLoader ==
    /\ lcls = "none"
    /\ lpath = [at |-> "root", name |-> <<>>]
    /\ documents = <<>>
    /\ lpc = "none"
    /\ lerr = ""
    /\ lop = ""
    /\ ret = <<>>
    /\ warnings = <<>>
    /\ calls = 0
    /\ successes = 0

SplitterInit ==
    /\ NoSplitter
    /\ NoLoader
    /\ fs = [root |-> <<>>, hasSub |-> FALSE, sub |-> <<>>]
    /\ PDF_AVAILABLE = TRUE

SplitterNext ==
    \/ \E a \in ConstructorArgs : Construct(a[1], a[2])
    \/ \E t \in SplitInputs : SplitCall(t)
    \/ SplitIterate
    \/ SplitReturn

SplitterSpec == SplitterInit /\ [][SplitterNext]_vars

----------------------------------------------------------------------------
(* The file system the loaders read *)

\* most files in the directory tree
MaxFiles == 2
\* most calls of load / load_documents on one loader instance
MaxCalls == 2

DotTxt == <<".", "t", "x", "t">>
DotPdf == <<".", "p", "d", "f">>

\* A file: its name, whether reading it succeeds (decoding for a text file,
\* PdfReader and extract_text for a PDF), its decoded text, its pages' texts.
TextFile(name, ok, content) == [name |-> name, ok |-> ok, text |-> content, pages |-> <<>>]
PdfFile(name, ok, pages)    == [name |-> name, ok |-> ok, text |-> <<>>, pages |-> pages]

NameATxt == <<"a", ".", "t", "x", "t">>
NameNTXT == <<"N", ".", "T", "X", "T">>
NameBPdf == <<"b", ".", "p", "d", "f">>
NameRPDF == <<"R", ".", "P", "D", "F">>
NameMd   == <<"m", ".", "m", "d">>

FileNames == {NameATxt, NameNTXT, NameBPdf, NameRPDF, NameMd}

AAAA == <<"A", "A", "A", "A">>

Files ==
    {TextFile(NameATxt, ok, AAAA) : ok \in BOOLEAN}
    \cup {TextFile(NameNTXT, TRUE, <<"N", "N">>)}
    \cup {PdfFile(NameBPdf, ok, << <<"B", "1">>, <<"B", "2", " ">> >>) : ok \in BOOLEAN}
    \cup {PdfFile(NameRPDF, TRUE, << <<" ", "R">> >>)}
    \cup {TextFile(NameMd, TRUE, <<"M">>)}

\* the listings of a directory: at most n files, no name twice, in any order
Listings(n) ==
    {l \in UNION {[1..m -> Files] : m \in 0..n} :
        \A j, k \in 1..Len(l) : j # k => l[j].name # l[k].name}

\* a directory with its files and at most one subdirectory
Trees ==
    {t \in [root : Listings(MaxFiles), hasSub : BOOLEAN, sub : Listings(MaxFiles)] :
        /\ Len(t.root) + Len(t.sub) <= MaxFiles
        /\ ~t.hasSub => t.sub = <<>>}

\* a path: the directory it lies in and the file's name; name <<>> is the directory itself
PathOf(at, name) == [at |-> at, name |-> name]

\* the paths handed to the loaders: the two directories and a file of the root,
\* each whether or not the tree holds it
Paths == {PathOf("root", n) : n \in {<<>>} \cup FileNames} \cup {PathOf("sub", <<>>)}

\* the path as a string: os.path.join(root, file)
PathStr(p) ==
    LET dir == IF p.at = "root" THEN <<"d">> ELSE <<"d", "/", "s">>
    IN  IF p.name = <<>> THEN dir ELSE dir \o <<"/">> \o p.name

DirListing(at) == IF at = "root" THEN fs.root ELSE fs.sub

DirExists(at) == at = "root" \/ fs.hasSub

\* os.path.isdir
isdir(p) == p.name = <<>> /\ DirExists(p.at)

\* os.path.isfile
isfile(p) ==
    /\ p.name # <<>>
    /\ DirExists(p.at)
    /\ \E k \in 1..Len(DirListing(p.at)) : DirListing(p.at)[k].name = p.name

\* the file a path names
FileAt(p) ==
    LET l == DirListing(p.at)
    IN  l[CHOOSE k \in 1..Len(l) : l[k].name = p.name]

Entries(at) == [k \in 1..Len(DirListing(at)) |-> [at |-> at, file |-> DirListing(at)[k]]]

\* os.walk(path), top-down, flattened to the files in the order the loops visit them
walk(p) ==
    IF p.at = "root"
      THEN Entries("root") \o (IF fs.hasSub THEN Entries("sub") ELSE <<>>)
      ELSE Entries("sub")

----------------------------------------------------------------------------
(* str methods *)

LowerChar(c) ==
    CASE c = "A" -> "a" [] c = "B" -> "b" [] c = "D" -> "d" [] c = "F" -> "f"
      [] c = "M" -> "m" [] c = "N" -> "n" [] c = "P" -> "p" [] c = "R" -> "r"
      [] c = "T" -> "t" [] c = "X" -> "x" [] OTHER -> c

\* str.lower()
lower(str) == [k \in 1..Len(str) |-> LowerChar(str[k])]

\* str.endswith(suffix)
endswith(str, suffix) ==
    /\ Len(str) >= Len(suffix)
    /\ SubSeq(str, Len(str) - Len(suffix) + 1, Len(str)) = suffix

Whitespace == {" ", "\n", "\t"}

RECURSIVE lstrip(_)
lstrip(str) ==
    IF str # <<>> /\ Head(str) \in Whitespace THEN lstrip(Tail(str)) ELSE str

RECURSIVE rstrip(_)
rstrip(str) ==
    IF str # <<>> /\ str[Len(str)] \in Whitespace
      THEN rstrip(SubSeq(str, 1, Len(str) - 1))
      ELSE str

\* str.strip()
strip(str) == rstrip(lstrip(str))

----------------------------------------------------------------------------
(* Outcome of a method: the documents list it leaves, the exception it      *)
(* raises ("" when it returns) and the paths of the warnings it printed.    *)

Done(docs, warn) == [docs |-> docs, err |-> "", warn |-> warn]
Raises(docs, e, warn) == [docs |-> docs, err |-> e, warn |-> warn]

----------------------------------------------------------------------------
(* TextFileLoader *)

\* a faulty variant of TextFileLoader_load_file: the list is assigned, not appended to
TextFileLoader_load_file_assign(p, docs) ==
    LET f == FileAt(p)
    IN  IF f.ok THEN Done(<<f.text>>, <<>>)
        ELSE Raises(docs, "UnicodeDecodeError", <<>>)

\* load_file: open, read, append; a decode failure propagates
TextFileLoader_load_file(p, docs) ==
    LET f == FileAt(p)
    IN  IF f.ok THEN Done(Append(docs, f.text), <<>>)
        ELSE Raises(docs, "UnicodeDecodeError", <<>>)

\* a faulty variant of TextFileMatches: the suffix compared without regard to case
TextFileMatches_anycase(file) == endswith(lower(file), DotTxt)

\* the test of load_directory: file.endswith(".txt")
TextFileMatches(file) == endswith(file, DotTxt)

RECURSIVE TextFileLoader_scan(_, _, _)
\* the loops of load_directory from the k-th file of the walk on; there is no
\* try: the first failing read ends the scan with what was appended so far
TextFileLoader_scan(entries, k, docs) ==
    IF k > Len(entries) THEN Done(docs, <<>>)
    ELSE LET f == entries[k].file
         IN  IF TextFileMatches(f.name)
               THEN IF f.ok
                      THEN TextFileLoader_scan(entries, k + 1, Append(docs, f.text))
                      ELSE Raises(docs, "UnicodeDecodeError", <<>>)
               ELSE TextFileLoader_scan(entries, k + 1, docs)

TextFileLoader_load_directory(p, docs) == TextFileLoader_scan(walk(p), 1, docs)

TextFileLoader_load(p, docs) ==
    IF isdir(p) THEN TextFileLoader_load_directory(p, docs)
    ELSE IF isfile(p) /\ endswith(PathStr(p), DotTxt) THEN TextFileLoader_load_file(p, docs)
    ELSE Raises(docs, "ValueError", <<>>)

----------------------------------------------------------------------------
(* PDFFileLoader *)

RECURSIVE JoinPages(_, _)
\* text = ""; for page in pages: text += page.extract_text() + "\n"
JoinPages(pages, k) ==
    IF k > Len(pages) THEN <<>>
    ELSE pages[k] \o <<"\n">> \o JoinPages(pages, k + 1)

\* the document made of a PDF: the pages' texts, newline after each, stripped
PdfText(f) == strip(JoinPages(f.pages, 1))

\* load_file: every failure is re-raised as ValueError
PDFFileLoader_load_file(p, docs) ==
    LET f == FileAt(p)
    IN  IF f.ok THEN Done(Append(docs, PdfText(f)), <<>>)
        ELSE Raises(docs, "ValueError", <<>>)

RECURSIVE PDFFileLoader_scan(_, _, _, _)
\* the loops of load_directory: a failing file prints a warning and is skipped
PDFFileLoader_scan(entries, k, docs, warn) ==
    IF k > Len(entries) THEN Done(docs, warn)
    ELSE LET f == entries[k].file
             file_path == PathOf(entries[k].at, f.name)
         IN  IF endswith(lower(f.name), DotPdf)
               THEN IF f.ok
                      THEN PDFFileLoader_scan(entries, k + 1, Append(docs, PdfText(f)), warn)
                      ELSE PDFFileLoader_scan(entries, k + 1, docs, Append(warn, file_path))
               ELSE PDFFileLoader_scan(entries, k + 1, docs, warn)

PDFFileLoader_load_directory(p, docs) == PDFFileLoader_scan(walk(p), 1, docs, <<>>)

PDFFileLoader_load(p, docs) ==
    IF isdir(p) THEN PDFFileLoader_load_directory(p, docs)
    ELSE IF isfile(p) /\ endswith(lower(PathStr(p)), DotPdf) THEN PDFFileLoader_load_file(p, docs)
    ELSE Raises(docs, "ValueError", <<>>)

----------------------------------------------------------------------------
(* UniversalDocumentLoader *)

\* the body of the try in load_directory, and the file branch of load except
\* for its two raises: a fresh format loader's load_documents(), and
\* self.documents.extend(...) when it returns.  "skip" says no loader was tried.
UniversalAttempt(file_path, docs) ==
    IF endswith(lower(PathStr(file_path)), DotTxt)
      THEN LET r == TextFileLoader_load(file_path, <<>>)
           IN  IF r.err = "" THEN Done(docs \o r.docs, <<>>)
               ELSE Raises(docs, r.err, <<>>)
    ELSE IF endswith(lower(PathStr(file_path)), DotPdf)
      THEN IF PDF_AVAILABLE
             THEN LET r == PDFFileLoader_load(file_path, <<>>)
                  IN  IF r.err = "" THEN Done(docs \o r.docs, <<>>)
                      ELSE Raises(docs, r.err, <<>>)
             ELSE Raises(docs, "unavailable", <<>>)
    ELSE Raises(docs, "skip", <<>>)

\* a faulty variant of ExceptException: the clause written for one exception class
ExceptImportError(e) == e = "ImportError"

\* "except Exception": the exceptions the loaders raise are all subclasses of it
ExceptException(e) == e \in {"ValueError", "UnicodeDecodeError", "ImportError"}

RECURSIVE UniversalDocumentLoader_scan(_, _, _, _)
\* the loops of load_directory: a caught exception, or a PDF without PyPDF2,
\* prints a warning; a file of another type is passed over silently
UniversalDocumentLoader_scan(entries, k, docs, warn) ==
    IF k > Len(entries) THEN Done(docs, warn)
    ELSE LET file_path == PathOf(entries[k].at, entries[k].file.name)
             r == UniversalAttempt(file_path, docs)
         IN  IF r.err = "" THEN UniversalDocumentLoader_scan(entries, k + 1, r.docs, warn)
             ELSE IF r.err = "skip" THEN UniversalDocumentLoader_scan(entries, k + 1, docs, warn)
             ELSE IF r.err = "unavailable" \/ ExceptException(r.err)
               THEN UniversalDocumentLoader_scan(entries, k + 1, docs, Append(warn, file_path))
             ELSE Raises(docs, r.err, warn)

UniversalDocumentLoader_load_directory(p, docs) ==
    UniversalDocumentLoader_scan(walk(p), 1, docs, <<>>)

UniversalDocumentLoader_load(p, docs) ==
    IF isdir(p) THEN UniversalDocumentLoader_load_directory(p, docs)
    ELSE IF isfile(p)
      THEN LET r == UniversalAttempt(p, docs)
           IN  IF r.err = "unavailable" THEN Raises(docs, "ImportError", <<>>)
               ELSE IF r.err = "skip" THEN Raises(docs, "ValueError", <<>>)
               ELSE r
    ELSE Raises(docs, "ValueError", <<>>)

----------------------------------------------------------------------------
(* The loader's caller *)

NewTextFileLoader(p) ==
    /\ lpc = "none"
    /\ lcls' = "TextFileLoader"
    /\ lpath' = p
    /\ documents' = <<>>
    /\ lpc' = "ready"
    /\ UNCHANGED <<fs, PDF_AVAILABLE, lerr, lop, ret, warnings, calls, successes>>
    /\ UNCHANGED svars

\* the constructor raises ImportError without PyPDF2
NewPDFFileLoader(p) ==
    /\ lpc = "none"
    /\ lcls' = "PDFFileLoader"
    /\ lpath' = p
    /\ IF PDF_AVAILABLE
         THEN lpc' = "ready" /\ lerr' = ""
         ELSE lpc' = "failed" /\ lerr' = "ImportError"
    /\ documents' = <<>>
    /\ UNCHANGED <<fs, PDF_AVAILABLE, lop, ret, warnings, calls, successes>>
    /\ UNCHANGED svars

NewUniversalDocumentLoader(p) ==
    /\ lpc = "none"
    /\ lcls' = "UniversalDocumentLoader"
    /\ lpath' = p
    /\ documents' = <<>>
    /\ lpc' = "ready"
    /\ UNCHANGED <<fs, PDF_AVAILABLE, lerr, lop, ret, warnings, calls, successes>>
    /\ UNCHANGED svars

\* load() of the instance's class, run with self.documents = docs
LoadFrom(docs) ==
    CASE lcls = "TextFileLoader" -> TextFileLoader_load(lpath, docs)
      [] lcls = "PDFFileLoader" -> PDFFileLoader_load(lpath, docs)
      [] lcls = "UniversalDocumentLoader" -> UniversalDocumentLoader_load(lpath, docs)

\* self.load()
LoadOutcome == LoadFrom(documents)

CanCall ==
    /\ lpc \in {"ready", "returned", "raised"}
    /\ calls < MaxCalls

\* loader.load()
Load ==
    /\ CanCall
    /\ LET r == LoadOutcome
       IN  /\ documents' = r.docs
           /\ lerr' = r.err
           /\ warnings' = r.warn
           /\ lpc' = IF r.err = "" THEN "returned" ELSE "raised"
           /\ successes' = IF r.err = "" THEN successes + 1 ELSE successes
    /\ lop' = "load"
    /\ ret' = <<>>
    /\ calls' = calls + 1
    /\ UNCHANGED <<fs, PDF_AVAILABLE, lcls, lpath>>
    /\ UNCHANGED svars

\* loader.load_documents(): self.load(), then return self.documents
LoadDocuments ==
    /\ CanCall
    /\ LET r == LoadOutcome
       IN  /\ documents' = r.docs
           /\ lerr' = r.err
           /\ warnings' = r.warn
           /\ lpc' = IF r.err = "" THEN "returned" ELSE "raised"
           /\ successes' = IF r.err = "" THEN successes + 1 ELSE successes
           /\ ret' = IF r.err = "" THEN r.docs ELSE <<>>
    /\ lop' = "load_documents"
    /\ calls' = calls + 1
    /\ UNCHANGED <<fs, PDF_AVAILABLE, lcls, lpath>>
    /\ UNCHANGED svars

LoaderInit ==
    /\ NoSplitter
    /\ NoLoader
    /\ fs \in Trees
    /\ PDF_AVAILABLE \in BOOLEAN

LoaderNext ==
    \/ \E p \in Paths : NewTextFileLoader(p)
    \/ \E p \in Paths : NewPDFFileLoader(p)
    \/ \E p \in Paths : NewUniversalDocumentLoader(p)
    \/ Load
    \/ LoadDocuments

LoaderSpec == LoaderInit /\ [][LoaderNext]_vars

----------------------------------------------------------------------------
(* Properties of CharacterTextSplitter *)

Returned == spc = "returned"

\* c with its first n characters removed
RemoveFirst(c, n) ==
    IF n <= 0 THEN c
    ELSE IF n >= Len(c) THEN <<>>
    ELSE SubSeq(c, n + 1, Len(c))

RECURSIVE ConcatTails(_, _, _)
\* cs[k], cs[k+1], ... each without its first n characters, concatenated
ConcatTails(cs, k, n) ==
    IF k > Len(cs) THEN <<>>
    ELSE RemoveFirst(cs[k], n) \o ConcatTails(cs, k + 1, n)

\* the first chunk followed by every later chunk without its first n characters
Reconstruct(cs, n) ==
    IF cs = <<>> THEN <<>> ELSE cs[1] \o ConcatTails(cs, 2, n)

CeilDiv(a, b) == (a + b - 1) \div b

\* C1: for every splitter the constructor accepts and every text, each chunk
\* split returns is at most chunk_size long, and the first chunk followed by
\* the later chunks without their first chunk_overlap characters is the text.
C1_AllAcceptedSplitters ==
    Returned =>
        /\ \A k \in 1..Len(result) : Len(result[k]) <= chunk_size
        /\ Reconstruct(result, chunk_overlap) = text

\* C1 restricted to the splitters with 0 <= chunk_overlap < chunk_size: the
\* chunks are at most chunk_size long and reconstruct the text.
C1_NonNegativeOverlap ==
    (Returned /\ chunk_overlap >= 0) =>
        /\ \A k \in 1..Len(result) : Len(result[k]) <= chunk_size
        /\ Reconstruct(result, chunk_overlap) = text

\* C2 as stated: a text shorter than chunk_size comes back as exactly one
\* chunk, equal to the text.
C2_ShorterThanChunkSize ==
    (Returned /\ Len(text) < chunk_size) => result = <<text>>

\* C2 amended: a non-empty text that is shorter than chunk_size and no longer
\* than the stride chunk_size - chunk_overlap comes back as exactly one chunk,
\* equal to the text.
C2_WithinOneStride ==
    (Returned /\ 0 < Len(text) /\ Len(text) < chunk_size /\ Len(text) <= Stride)
        => result = <<text>>

C2_Witness ==
    /\ Returned
    /\ 0 < Len(text) /\ Len(text) < chunk_size /\ Len(text) <= Stride
    /\ chunk_overlap > 0
    /\ result = <<text>>

\* C3 as stated: split("") returns one empty chunk, and the empty text is the
\* only input for which split returns an empty chunk.
C3_EmptyTextOneEmptyChunk ==
    /\ (Returned /\ text = <<>>) => result = << <<>> >>
    /\ (Returned /\ \E k \in 1..Len(result) : result[k] = <<>>) => text = <<>>

\* C3 amended: split("") returns the empty list, the loop body never running;
\* an empty chunk is returned only by a splitter whose chunk_size is <= 0,
\* never for a splitter with chunk_size >= 1.
C3_EmptyTextNoChunk ==
    /\ (spc \in {"loop", "returned"} /\ text = <<>>) => (chunks = <<>> /\ starts = <<>>)
    /\ (Returned /\ text = <<>>) => result = <<>>
    /\ (Returned /\ \E k \in 1..Len(result) : result[k] = <<>>) => chunk_size <= 0

C3_Witness ==
    /\ Returned
    /\ text = <<>>
    /\ chunk_size >= 1
    /\ result = <<>>

\* C4: a constructor call with chunk_overlap >= chunk_size fails and leaves no
\* splitter; every splitter that exists has chunk_size > chunk_overlap and a
\* stride of at least 1, and the loop of split advances by the stride on every
\* pass and makes at most len(text) passes.
C4_ConstructorGuard ==
    /\ (spc # "new" /\ arg_overlap >= arg_size) =>
            /\ spc = "failed"
            /\ serr = "AssertionError"
    /\ (spc # "new" /\ arg_overlap < arg_size) => spc # "failed"
    /\ spc \notin {"new", "failed"} =>
            /\ chunk_size = arg_size
            /\ chunk_overlap = arg_overlap
            /\ chunk_size > chunk_overlap
            /\ Stride >= 1
            /\ serr = ""
    /\ spc \in {"loop", "returned"} =>
            /\ i = Len(chunks) * Stride
            /\ Len(chunks) <= Len(text)
            /\ i < Len(text) + Stride

C4_Witness ==
    /\ spc = "failed"
    /\ arg_overlap = arg_size

\* C5: split returns Ceil(len(text) / stride) chunks in increasing offset
\* order, the k-th (from 0) starting at k * stride and being
\* text[k*stride : k*stride + chunk_size]; a chunk is shorter than chunk_size
\* only when its window runs past the end of the text, and every chunk after
\* a short one is short too.  With chunk_size 10, chunk_overlap 5 and a text
\* of length 23 the offsets are 0, 5, 10, 15, 20 and the last chunk has
\* length 3.
C5_ChunkOffsets ==
    Returned =>
        LET S == chunk_size - chunk_overlap
            L == Len(text)
        IN  /\ Len(result) = CeilDiv(L, S)
            /\ Len(starts) = Len(result)
            /\ \A k \in 1..Len(result) :
                    /\ starts[k] = (k - 1) * S
                    /\ starts[k] < L
                    /\ result[k] = PySlice(text, (k - 1) * S, (k - 1) * S + chunk_size)
                    /\ chunk_size >= 0 =>
                          /\ Len(result[k]) = Min(chunk_size, L - starts[k])
                          /\ \A j \in 1..Len(result[k]) : result[k][j] = text[starts[k] + j]
                    /\ Len(result[k]) < chunk_size =>
                          /\ starts[k] + chunk_size > L
                          /\ \A m \in k..Len(result) : Len(result[m]) < chunk_size
            /\ (chunk_size = 10 /\ chunk_overlap = 5 /\ L = 23) =>
                    /\ starts = <<0, 5, 10, 15, 20>>
                    /\ Len(result) = 5
                    /\ Len(result[5]) = 3

C5_Witness ==
    /\ Returned
    /\ chunk_size = 10 /\ chunk_overlap = 5 /\ Len(text) = 23
    /\ Len(result) = 5
    /\ result[5] = <<"u", "v", "w">>

----------------------------------------------------------------------------
(* Properties of the loaders *)

\* names by the case of their suffix, written out
LowerTxtNames == {NameATxt}
AnyCaseTxtNames == {NameATxt, NameNTXT}
AnyCasePdfNames == {NameBPdf, NameRPDF}

\* the document a file yields: a PDF's joined pages, else the decoded text
DocumentOf(f) == IF f.name \in AnyCasePdfNames THEN PdfText(f) ELSE f.text

\* the documents of the files of entries at the positions K, in the order of entries
Selected(entries, K) ==
    LET Nth(n) == CHOOSE k \in K : Cardinality({j \in K : j <= k}) = n
    IN  [n \in 1..Cardinality(K) |-> DocumentOf(entries[Nth(n)].file)]

IsPrefix(a, b) == Len(a) <= Len(b) /\ SubSeq(b, 1, Len(a)) = a

RECURSIVE Repeat(_, _)
Repeat(seq, k) == IF k = 0 THEN <<>> ELSE seq \o Repeat(seq, k - 1)

\* a file the universal loader can load: a readable lower-case .txt file, or
\* a well-formed PDF (suffix in any case) when PyPDF2 is there
UniversalLoads(f) ==
    \/ f.name \in LowerTxtNames /\ f.ok
    \/ f.name \in AnyCasePdfNames /\ f.ok /\ PDF_AVAILABLE

\* the walk holds just a corrupt PDF and a readable lower-case .txt file
CorruptPdfAndValidTxt(entries) ==
    /\ Len(entries) = 2
    /\ \E j, k \in 1..2 :
          /\ entries[j].file.name \in AnyCasePdfNames /\ ~entries[j].file.ok
          /\ entries[k].file.name \in LowerTxtNames /\ entries[k].file.ok

\* C6: a call of UniversalDocumentLoader.load / load_documents on a directory
\* always returns; the first call leaves exactly the documents of the files
\* that load, in walk order, and load_documents returns that list; a
\* directory with one corrupt PDF and one valid .txt file gives the one
\* document of the .txt file.
C6_UniversalScanNeverRaises ==
    (lcls = "UniversalDocumentLoader" /\ isdir(lpath) /\ calls >= 1) =>
        /\ lpc = "returned"
        /\ lerr = ""
        /\ lop = "load_documents" => ret = documents
        /\ calls = 1 =>
              /\ documents = Selected(walk(lpath),
                    {k \in 1..Len(walk(lpath)) : UniversalLoads(walk(lpath)[k].file)})
              /\ CorruptPdfAndValidTxt(walk(lpath)) => documents = <<AAAA>>

C6_Witness ==
    /\ lcls = "UniversalDocumentLoader"
    /\ isdir(lpath)
    /\ lop = "load_documents"
    /\ lpc = "returned"
    /\ CorruptPdfAndValidTxt(walk(lpath))
    /\ ret = <<AAAA>>
    /\ Len(warnings) = 1

\* the files a loader's directory scan tries to read
ScanTries(f) ==
    CASE lcls = "TextFileLoader" -> f.name \in LowerTxtNames
      [] lcls = "PDFFileLoader" -> f.name \in AnyCasePdfNames
      [] lcls = "UniversalDocumentLoader" -> f.name \in AnyCaseTxtNames \cup AnyCasePdfNames
      [] OTHER -> FALSE

\* C7: for every loader, a directory scan that meets a file it cannot read
\* returns all the same, having skipped that file with a warning; the same
\* failure on a single named file is raised to the caller.
C7_ScanSkipsFileRaises ==
    /\ (calls >= 1 /\ isdir(lpath)) =>
          /\ lpc = "returned"
          /\ \A k \in 1..Len(walk(lpath)) :
                LET f == walk(lpath)[k].file
                IN  (ScanTries(f) /\ ~f.ok) =>
                        \E w \in 1..Len(warnings) : warnings[w].name = f.name
    /\ (calls >= 1 /\ isfile(lpath) /\ ScanTries(FileAt(lpath)) /\ ~FileAt(lpath).ok) =>
          lpc = "raised"

\* C7 for PDFFileLoader and UniversalDocumentLoader alone
C7_PdfAndUniversalOnly ==
    lcls # "TextFileLoader" => C7_ScanSkipsFileRaises

\* C8: UniversalDocumentLoader.load() on a single readable file whose name
\* ends in .txt in any case appends that file's content, and on one whose
\* name ends in .pdf in any case appends that PDF's text.
C8_AnyCaseSuffix ==
    (lcls = "UniversalDocumentLoader" /\ isfile(lpath) /\ calls = 1 /\ FileAt(lpath).ok) =>
        /\ lpath.name \in AnyCaseTxtNames =>
              (lpc = "returned" /\ documents = <<FileAt(lpath).text>>)
        /\ (lpath.name \in AnyCasePdfNames /\ PDF_AVAILABLE) =>
              (lpc = "returned" /\ documents = <<PdfText(FileAt(lpath))>>)

\* C8 for the suffixes .txt (lower case only) and .pdf (any case)
C8_LowerTxtAnyCasePdf ==
    (lcls = "UniversalDocumentLoader" /\ isfile(lpath) /\ calls = 1 /\ FileAt(lpath).ok) =>
        /\ lpath.name \in LowerTxtNames =>
              (lpc = "returned" /\ documents = <<FileAt(lpath).text>>)
        /\ (lpath.name \in AnyCasePdfNames /\ PDF_AVAILABLE) =>
              (lpc = "returned" /\ documents = <<PdfText(FileAt(lpath))>>)

IsLowerTxt(f) == f.name \in LowerTxtNames

\* the root holds just a.txt (readable) and b.pdf, and there is no subdirectory
ATxtAndBPdf ==
    /\ ~fs.hasSub
    /\ Len(fs.root) = 2
    /\ \E j, k \in 1..2 :
          /\ fs.root[j].name = NameATxt /\ fs.root[j].ok
          /\ fs.root[k].name = NameBPdf

C10_AppendOnly ==
    /\ [](successes >= 1 => documents = Repeat(LoadFrom(<<>>).docs, successes))
    /\ [][/\ IsPrefix(documents, documents')
          /\ successes' = successes + 1 => documents' = documents \o LoadFrom(<<>>).docs]_vars

C10_Witness ==
    /\ successes = 2
    /\ Len(documents) = 4
    /\ documents[1] = documents[3]
    /\ documents[2] = documents[4]
    /\ documents[1] # documents[2]

====
